---- MODULE Spec2Model ----
(***************************************************************************)
(* A model of app.py: the credential resolver resolve_openai_api_key, the  *)
(* lazy LangChain import, and the request pipeline run_llm (prompt         *)
(* building, client construction, invocation fallback, answer extraction   *)
(* and the metadata suffix), together with the form that calls it.         *)
(*                                                                         *)
(* Python values are records [t, v]: t is the type tag, v the text of a    *)
(* str.  Text that the source writes in Japanese is given in English.      *)
(***************************************************************************)
EXTENDS Naturals, Sequences, FiniteSets, TLC

(* ------------------------------------------------------------------ *)
(* Python values                                                      *)
(* ------------------------------------------------------------------ *)

Str(s) == [t |-> "str", v |-> s]
PyNone == [t |-> "none", v |-> ""]
\* a non-empty list, e.g. the content blocks of a multi-part message
PyList == [t |-> "list", v |-> ""]
\* an attribute or key that the object does not have
Absent == [t |-> "absent", v |-> ""]

\* Python truthiness of the values above (`if key:`, `if not api_key:`)
Truthy(x) == \/ x.t = "str" /\ x.v # ""
             \/ x.t = "list"

\* the longest user text the model enumerates
MaxLen == 2

(* ------------------------------------------------------------------ *)
(* The persona table                                                  *)
(* ------------------------------------------------------------------ *)

EXPERTS ==
    [A |-> [label  |-> "A|Generative AI implementation consultant",
            system |-> "You are a consultant strong in generative AI / LLM implementation."],
     B |-> [label  |-> "B|Airport access and mobility analyst",
            system |-> "You are an analyst of airport access and mobility."]]

Registered == DOMAIN EXPERTS

\* the codes a caller of run_llm may pass; "Z" is not registered
ExpertKeys == {"A", "B", "Z"}

ModelName == "gpt-4o-mini"
Temperature == "0.3"

(* ------------------------------------------------------------------ *)
(* Credential sources and resolve_openai_api_key                      *)
(* ------------------------------------------------------------------ *)

\* The secrets store as the resolver sees it.
\*   avail: "ok", "noattr" (st has no attribute secrets), "throws" (any
\*          access to the store raises)
\*   top:   the value of st.secrets.get("OPENAI_API_KEY", None)
\*   block: "absent" ("openai" not in st.secrets), "dict" (a dict) or
\*          "mapping" (a mapping that is not a dict instance)
\*   nested: the block's api_key
KeyValues == {PyNone, Str(""), Str("sk-top")}
NestedValues == {PyNone, Str("sk-nested")}

Stores ==
    {[avail |-> a, top |-> PyNone, block |-> "absent", nested |-> PyNone] :
        a \in {"noattr", "throws"}}
    \cup {[avail |-> "ok", top |-> k, block |-> "absent", nested |-> PyNone] :
            k \in KeyValues}
    \cup [avail : {"ok"}, top : KeyValues, block : {"dict", "mapping"},
          nested : NestedValues]

\* what the outside world may put in the environment variable OPENAI_API_KEY
ExternalEnv == {PyNone, Str(""), Str("sk-env")}

\* lines 73-80: the key the store yields, or PyNone
SecretsKey(s) ==
    IF s.avail # "ok" THEN PyNone
    ELSE LET key0 == s.top
             key1 == IF ~Truthy(key0) /\ s.block # "absent"
                     THEN (IF s.block = "dict" THEN s.nested ELSE key0)
                     ELSE key0
         IN  IF Truthy(key1) THEN key1 ELSE PyNone

resolve_openai_api_key(s, env) ==
    IF Truthy(SecretsKey(s)) THEN [key |-> SecretsKey(s), source |-> "secrets"]
    ELSE IF Truthy(env) THEN [key |-> env, source |-> "env"]
    ELSE [key |-> PyNone, source |-> "missing"]

(* ------------------------------------------------------------------ *)
(* lazy_import_langchain                                              *)
(* ------------------------------------------------------------------ *)

ChatPaths == <<"langchain_openai.ChatOpenAI",
               "langchain.chat_models.ChatOpenAI",
               "langchain_community.chat_models.ChatOpenAI">>
MsgPaths == <<"langchain_core.messages", "langchain.schema">>

AllPaths == {ChatPaths[i] : i \in DOMAIN ChatPaths}
            \cup {MsgPaths[i] : i \in DOMAIN MsgPaths}

\* the error entries one import loop appends: one per path that fails
\* before the first path that imports (the loop breaks there)
RECURSIVE LoopErrors(_, _)
LoopErrors(paths, avail) ==
    IF paths = <<>> \/ Head(paths) \in avail THEN <<>>
    ELSE <<Head(paths) \o ": import failed">> \o LoopErrors(Tail(paths), avail)

Found(paths, avail) == \E i \in DOMAIN paths : paths[i] \in avail

\* "\n".join(errors)
RECURSIVE Join(_)
Join(errs) ==
    IF errs = <<>> THEN ""
    ELSE IF Len(errs) = 1 THEN errs[1]
    ELSE errs[1] \o "\n" \o Join(Tail(errs))

\* avail: the import paths that import in this deployment
lazy_import_langchain(avail) ==
    LET errors == LoopErrors(ChatPaths, avail) \o LoopErrors(MsgPaths, avail)
    IN  IF Found(ChatPaths, avail) /\ Found(MsgPaths, avail)
        THEN [ok |-> TRUE, import_err |-> PyNone]
        ELSE [ok |-> FALSE,
              import_err |-> Str(IF errors # <<>> THEN Join(errors)
                                 ELSE "unknown import error")]

(* ------------------------------------------------------------------ *)
(* User text, prompt, constructor signatures                          *)
(* ------------------------------------------------------------------ *)

Chars == {" ", "h"}

RECURSIVE SeqsUpTo(_)
SeqsUpTo(n) ==
    IF n = 0 THEN {<<>>}
    ELSE SeqsUpTo(n - 1)
         \cup {Append(s, c) : s \in {t \in SeqsUpTo(n - 1) : Len(t) = n - 1}, c \in Chars}

UserTexts == SeqsUpTo(MaxLen)

\* str.strip(): leading and trailing whitespace removed
RECURSIVE LStrip(_)
LStrip(s) == IF s # <<>> /\ Head(s) = " " THEN LStrip(Tail(s)) ELSE s
RECURSIVE RStrip(_)
RStrip(s) == IF s # <<>> /\ s[Len(s)] = " "
             THEN RStrip(SubSeq(s, 1, Len(s) - 1)) ELSE s
Strip(s) == RStrip(LStrip(s))

\* line 148: EXPERTS.get(expert_key, EXPERTS["A"])["system"]
SystemMsg(code) == IF code \in Registered THEN EXPERTS[code].system
                   ELSE EXPERTS["A"].system

\* a prompt builder that trims the user text
BuildMessages_trimmed(code, text) ==
    <<[role |-> "system", content |-> SystemMsg(code)],
      [role |-> "human", content |-> Strip(text)]>>

\* line 149
BuildMessages(code, text) ==
    <<[role |-> "system", content |-> SystemMsg(code)],
      [role |-> "human", content |-> text]>>

\* a construction loop that passes the key in every attempt
Signature_key_always(i, key) ==
    [model_kw |-> IF i \in {1, 3} THEN "model" ELSE "model_name",
     model |-> ModelName,
     temperature |-> Temperature,
     openai_api_key |-> key]

\* lines 154-159: the keyword arguments of the four construction attempts
Signature(i, key) ==
    [model_kw |-> IF i \in {1, 3} THEN "model" ELSE "model_name",
     model |-> ModelName,
     temperature |-> Temperature,
     openai_api_key |-> IF i \in {3, 4} THEN key ELSE Absent]

NumSignatures == 4

\* str(e) of the exception the i-th construction attempt raised
CtorError(i) == "constructor rejected signature " \o ToString(i)

(* ------------------------------------------------------------------ *)
(* Responses and answer extraction                                    *)
(* ------------------------------------------------------------------ *)

\* one element of generations[0]
Gen(msgContent, text) == [message_content |-> msgContent, text |-> text]

\* A response object.
\*   content:     the attribute res.content, or Absent
\*   is_dict:     isinstance(res, dict)
\*   item:        res["content"] of a dict, or Absent
\*   generations: "absent", "raises" (probing it raises), or the batches
\*   repr:        str(res)
Resp(content, is_dict, item, gens, repr) ==
    [content |-> content, is_dict |-> is_dict, item |-> item,
     generations |-> gens, repr |-> repr]

NoGens == [kind |-> "absent", batches |-> <<>>]
BadGens == [kind |-> "raises", batches |-> <<>>]
Gens(b) == [kind |-> "list", batches |-> b]

Responses ==
    { Resp(Str("Hello"), FALSE, Absent, NoGens, "AIMessage(content='Hello')"),
      Resp(Str(""), FALSE, Absent, NoGens, "AIMessage(content='')"),
      Resp(PyList, FALSE, Absent, NoGens, "AIMessage(content=[...])"),
      Resp(Str("Hello"), FALSE, Absent,
           Gens(<< <<Gen(Str("Nested"), Str("Text"))>> >>), "Both(...)"),
      Resp(Absent, TRUE, Str("FromDict"), NoGens, "{'content': 'FromDict'}"),
      Resp(Absent, TRUE, Absent, NoGens, "{'text': 'x'}"),
      Resp(Absent, FALSE, Absent,
           Gens(<< <<Gen(Str("Nested"), Str("Text"))>> >>), "LLMResult(chat)"),
      Resp(Absent, FALSE, Absent,
           Gens(<< <<Gen(Absent, Str("Text"))>> >>), "LLMResult(text)"),
      Resp(Absent, FALSE, Absent,
           Gens(<< <<Gen(Absent, Absent)>> >>), "LLMResult(bare)"),
      Resp(Absent, FALSE, Absent, Gens(<<>>), "LLMResult([])"),
      Resp(Absent, FALSE, Absent, Gens(<< <<>> >>), "LLMResult([[]])"),
      Resp(Absent, FALSE, Absent, BadGens, "Odd(generations=1)"),
      Resp(Absent, FALSE, Absent, NoGens, "plain text") }

\* an extraction that looks at generations before the content attribute
ExtractAnswer_generations_first(r) ==
    IF r.generations.kind = "list" /\ r.generations.batches # <<>>
       /\ r.generations.batches[1] # <<>>
       /\ r.generations.batches[1][1].message_content # Absent
    THEN r.generations.batches[1][1].message_content
    ELSE IF r.content # Absent THEN r.content
    ELSE IF r.is_dict /\ r.item # Absent THEN r.item
    ELSE Str(r.repr)

\* lines 187-207
ExtractAnswer(r) ==
    IF r.content # Absent THEN r.content
    ELSE IF r.is_dict /\ r.item # Absent THEN r.item
    ELSE IF r.generations.kind = "raises" THEN Str(r.repr)
    ELSE IF r.generations.kind = "list" THEN
        LET gens == r.generations.batches
        IN  IF gens # <<>> /\ gens[1] # <<>> THEN
                LET g0 == gens[1][1]
                IN  IF g0.message_content # Absent THEN g0.message_content
                    ELSE IF g0.text # Absent THEN g0.text
                    ELSE Str(r.repr)
            ELSE Str(r.repr)
    ELSE Str(r.repr)

(* ------------------------------------------------------------------ *)
(* What run_llm hands back                                            *)
(* ------------------------------------------------------------------ *)

NoResult == [kind |-> "none", value |-> ""]
Return(s) == [kind |-> "return", value |-> s]
Raise(exc) == [kind |-> "raise", value |-> exc]

\* line 131
MissingKeyMessage ==
    "OpenAI API key was not found. On Cloud, set OPENAI_API_KEY under App -> Settings -> Secrets."

\* lines 137-145
ImportFailedMessage(import_err) ==
    "Loading LangChain failed. Prepare requirements.txt as in this example:\n"
    \o "streamlit>=1.36\nlangchain>=0.3.0\nlangchain-openai>=0.1.21\n"
    \o "openai>=1.51.0\npython-dotenv>=1.0.1\n\n"
    \o "Details: " \o import_err

\* line 166
InitFailedMessage(err) ==
    "Model initialisation failed (" \o ModelName \o "). Details: " \o err

\* lines 183-184: the error and traceback.format_exc(limit=2)
InvokeFailedMessage(err) ==
    "LLM call failed. Details: " \o err \o "\nTraceback (most recent call last): " \o err

\* line 181
NoMethodError == "no compatible call method was found."

\* str(e) of the exception an invocation form raised
FormError(form) == form \o " failed"

\* line 209, for a registered code
Suffix(code, source) ==
    "\n\n---\n(mode: " \o EXPERTS[code].label \o "|model: " \o ModelName
    \o "|key source: " \o source \o ")"

\* lines 209-210: the suffix is formatted first (EXPERTS[expert_key] raises
\* KeyError for a code that is not registered), then answer + suffix
\* (TypeError unless the answer is a str)
Compose(ans, code, source) ==
    IF code \notin Registered THEN Raise("KeyError")
    ELSE IF ans.t # "str" THEN Raise("TypeError")
    ELSE Return(ans.v \o Suffix(code, source))

(* ------------------------------------------------------------------ *)
(* State                                                              *)
(* ------------------------------------------------------------------ *)

VARIABLES
    secrets,      \* the secrets store
    environ,      \* os.environ["OPENAI_API_KEY"], PyNone when unset
    pc,           \* where run_llm is; "idle" when no call is running
    warning,      \* the form showed "enter some text"
    user_text,    \* run_llm's arguments
    expert_key,
    api_key,      \* line 129
    key_source,
    messages,     \* line 149
    next_sig,     \* the construction attempt the loop of line 154 is at
    llm,          \* the constructed client, its optional methods
    last_err,     \* line 164
    res,          \* the raw response
    answer,       \* lines 187-207
    result,       \* what run_llm returned or raised
    imported,     \* lazy_import_langchain was called in this run
    constructed,  \* the construction attempts of this run, in order
    invoked       \* the invocation attempts of this run, in order

vars == <<secrets, environ, pc, warning, user_text, expert_key, api_key,
          key_source, messages, next_sig, llm, last_err, res, answer, result,
          imported, constructed, invoked>>

locals == <<api_key, key_source, messages, next_sig, llm, last_err, res,
            answer, imported, constructed, invoked>>

NoClient == [built |-> FALSE, predict_messages |-> FALSE, generate |-> FALSE]
NoResp == Resp(Absent, FALSE, Absent, NoGens, "")

Idle == pc = "idle"

Init ==
    /\ secrets \in Stores
    /\ environ \in ExternalEnv
    /\ pc = "idle"
    /\ warning = FALSE
    /\ user_text = <<>>
    /\ expert_key = "A"
    /\ api_key = PyNone
    /\ key_source = "missing"
    /\ messages = <<>>
    /\ next_sig = 1
    /\ llm = NoClient
    /\ last_err = PyNone
    /\ res = NoResp
    /\ answer = Absent
    /\ result = NoResult
    /\ imported = FALSE
    /\ constructed = <<>>
    /\ invoked = <<>>

\* entry of run_llm: fresh locals
Enter(text, code) ==
    /\ pc' = "resolve"
    /\ warning' = FALSE
    /\ user_text' = text
    /\ expert_key' = code
    /\ api_key' = PyNone
    /\ key_source' = "missing"
    /\ messages' = <<>>
    /\ next_sig' = 1
    /\ llm' = NoClient
    /\ last_err' = PyNone
    /\ res' = NoResp
    /\ answer' = Absent
    /\ result' = NoResult
    /\ imported' = FALSE
    /\ constructed' = <<>>
    /\ invoked' = <<>>
    /\ UNCHANGED <<secrets, environ>>

\* lines 215-239: the form is submitted with a selected label and a text
FormSubmit ==
    /\ Idle
    /\ \E code \in Registered, text \in UserTexts :
         IF Strip(text) = <<>>
         THEN /\ warning' = TRUE
              /\ pc' = "idle"
              /\ result' = NoResult
              /\ UNCHANGED <<secrets, environ, user_text, expert_key, locals>>
         ELSE Enter(text, code)

\* run_llm called with any arguments
CallRunLlm ==
    /\ Idle
    /\ \E code \in ExpertKeys, text \in UserTexts : Enter(text, code)

\* the secrets store or the environment is changed from outside,
\* between submissions
ChangeSecrets ==
    /\ Idle
    /\ \E s \in Stores : secrets' = s
    /\ UNCHANGED <<environ, pc, warning, user_text, expert_key, result, locals>>

ChangeEnv ==
    /\ Idle
    /\ \E e \in ExternalEnv : environ' = e
    /\ UNCHANGED <<secrets, pc, warning, user_text, expert_key, result, locals>>

\* a run_llm that does not write the key to os.environ
ExportKey_not_written(key, env) == env

\* the value line 132 leaves in os.environ["OPENAI_API_KEY"]
ExportKey(key, env) == key

\* a run_llm that goes on to the import without a key
AfterResolve_no_check(key) == "import"

\* lines 130-131: without a key run_llm returns at once
AfterResolve(key) == IF ~Truthy(key) THEN "done" ELSE "import"

\* lines 129-132
ResolveKey ==
    /\ pc = "resolve"
    /\ LET r == resolve_openai_api_key(secrets, environ)
       IN  /\ api_key' = r.key
           /\ key_source' = r.source
           /\ pc' = AfterResolve(r.key)
           /\ IF pc' = "done"
              THEN /\ result' = Return(MissingKeyMessage)
                   /\ environ' = environ
              ELSE /\ environ' = ExportKey(r.key, environ)
                   /\ result' = result
    /\ UNCHANGED <<secrets, warning, user_text, expert_key, messages, next_sig,
                   llm, last_err, res, answer, imported, constructed, invoked>>

\* lines 135-149: the import, then the prompt
ImportAndBuild ==
    /\ pc = "import"
    /\ imported' = TRUE
    /\ \E avail \in SUBSET AllPaths :
         LET r == lazy_import_langchain(avail)
         IN  IF Truthy(r.import_err)
             THEN /\ result' = Return(ImportFailedMessage(r.import_err.v))
                  /\ pc' = "done"
                  /\ messages' = messages
             ELSE /\ messages' = BuildMessages(expert_key, user_text)
                  /\ pc' = "construct"
                  /\ result' = result
    /\ UNCHANGED <<secrets, environ, warning, user_text, expert_key, api_key,
                   key_source, next_sig, llm, last_err, res, answer,
                   constructed, invoked>>

\* the shapes a constructed client may have: the two optional methods
Clients == [built : {TRUE}, predict_messages : BOOLEAN, generate : BOOLEAN]

\* lines 152-166: one pass of the construction loop
Construct ==
    /\ pc = "construct"
    /\ constructed' = Append(constructed, Signature(next_sig, api_key))
    /\ \/ \* ChatOpenAI(**kwargs) returns: break
          /\ \E c \in Clients : llm' = c
          /\ pc' = "invoke"
          /\ UNCHANGED <<last_err, next_sig, result>>
       \/ \* it raises: last_err = e, next signature or give up
          /\ last_err' = Str(CtorError(next_sig))
          /\ llm' = llm
          /\ IF next_sig = NumSignatures
             THEN /\ result' = Return(InitFailedMessage(last_err'.v))
                  /\ pc' = "done"
                  /\ next_sig' = next_sig
             ELSE /\ next_sig' = next_sig + 1
                  /\ pc' = "construct"
                  /\ result' = result
    /\ UNCHANGED <<secrets, environ, warning, user_text, expert_key, api_key,
                   key_source, messages, res, answer, imported, invoked>>

\* one attempted invocation form: batched is TRUE when the message list is
\* passed wrapped in a one-element list (generate([messages]))
Attempt(form, msgs) ==
    [form |-> form, arg |-> msgs, batched |-> (form = "generate")]

\* lines 176-181: the form tried after invoke and the direct call failed
FallbackForm(client) ==
    IF client.predict_messages THEN "predict_messages"
    ELSE IF client.generate THEN "generate"
    ELSE "none"

\* where the pipeline goes when the form at pc raised
AfterFailure(at) ==
    IF at = "invoke" THEN "call"
    ELSE IF at = "call" THEN "fallback"
    ELSE "done"

\* a form returned: the response is kept and extraction follows
Succeed ==
    /\ \E r \in Responses : res' = r
    /\ pc' = "extract"
    /\ result' = result

\* line 171: llm.invoke(messages)
Invoke ==
    /\ pc = "invoke"
    /\ invoked' = Append(invoked, Attempt("invoke", messages))
    /\ \/ Succeed
       \/ /\ pc' = AfterFailure("invoke")
          /\ UNCHANGED <<res, result>>
    /\ UNCHANGED <<secrets, environ, warning, user_text, expert_key, api_key,
                   key_source, messages, next_sig, llm, last_err, answer,
                   imported, constructed>>

\* line 174: llm(messages)
DirectCall ==
    /\ pc = "call"
    /\ invoked' = Append(invoked, Attempt("__call__", messages))
    /\ \/ Succeed
       \/ /\ pc' = AfterFailure("call")
          /\ UNCHANGED <<res, result>>
    /\ UNCHANGED <<secrets, environ, warning, user_text, expert_key, api_key,
                   key_source, messages, next_sig, llm, last_err, answer,
                   imported, constructed>>

\* lines 176-184: predict_messages, else generate, else RuntimeError; an
\* exception of the form tried here reaches the handler of line 182
Fallback ==
    /\ pc = "fallback"
    /\ LET form == FallbackForm(llm)
       IN  IF form = "none"
           THEN /\ result' = Return(InvokeFailedMessage(NoMethodError))
                /\ pc' = "done"
                /\ UNCHANGED <<res, invoked>>
           ELSE /\ invoked' = Append(invoked, Attempt(form, messages))
                /\ \/ Succeed
                   \/ /\ result' = Return(InvokeFailedMessage(FormError(form)))
                      /\ pc' = "done"
                      /\ res' = res
    /\ UNCHANGED <<secrets, environ, warning, user_text, expert_key, api_key,
                   key_source, messages, next_sig, llm, last_err, answer,
                   imported, constructed>>

\* lines 186-210
ExtractAndCompose ==
    /\ pc = "extract"
    /\ answer' = ExtractAnswer(res)
    /\ result' = Compose(answer', expert_key, key_source)
    /\ pc' = "done"
    /\ UNCHANGED <<secrets, environ, warning, user_text, expert_key, api_key,
                   key_source, messages, next_sig, llm, last_err, res,
                   imported, constructed, invoked>>

\* lines 237-239: run_llm's frame is gone, the script run ends and the
\* form waits for the next submission
Finish ==
    /\ pc = "done"
    /\ pc' = "idle"
    /\ api_key' = PyNone
    /\ key_source' = "missing"
    /\ messages' = <<>>
    /\ next_sig' = 1
    /\ llm' = NoClient
    /\ last_err' = PyNone
    /\ res' = NoResp
    /\ answer' = Absent
    /\ result' = NoResult
    /\ imported' = FALSE
    /\ constructed' = <<>>
    /\ invoked' = <<>>
    /\ user_text' = <<>>
    /\ expert_key' = "A"
    /\ UNCHANGED <<secrets, environ, warning>>

Next ==
    \/ FormSubmit
    \/ CallRunLlm
    \/ ChangeSecrets
    \/ ChangeEnv
    \/ ResolveKey
    \/ ImportAndBuild
    \/ Construct
    \/ Invoke
    \/ DirectCall
    \/ Fallback
    \/ ExtractAndCompose
    \/ Finish

Spec == Init /\ [][Next]_vars

(* ------------------------------------------------------------------ *)
(* Properties                                                         *)
(* ------------------------------------------------------------------ *)

\* run_llm has returned or raised
Returned == pc = "done"
\* an invocation form returned a response in this run
GotResponse == res # NoResp
\* the persona the request is completed with: the registered entry, else "A"
SelectedPersona == IF expert_key \in Registered THEN expert_key ELSE "A"

\* C1: for a registered persona code, whatever the credential, the import,
\* the construction, the invocation and the response shape (a content that
\* is not a string included), run_llm returns a non-empty string and never
\* raises.
C1_NeverRaises ==
    (Returned /\ expert_key \in Registered)
        => (result.kind = "return" /\ result.value # "")

\* C2: a registered code completes the request with exactly that entry, and
\* an unregistered code completes it with the default persona "A": with a
\* text answer, run_llm returns the answer composed with that persona.
C2_PersonaFallback ==
    (Returned /\ GotResponse /\ answer.t = "str")
        => result = Return(answer.v \o "\n\n---\n(mode: "
                           \o EXPERTS[SelectedPersona].label
                           \o "|model: gpt-4o-mini|key source: "
                           \o key_source \o ")")

\* the resolution the priority rule of C3 prescribes
C3_Prescribed(s, env) ==
    IF s.avail = "ok" /\ Truthy(s.top)
        THEN <<s.top, "secrets">>
    ELSE IF s.avail = "ok" /\ s.block # "absent" /\ Truthy(s.nested)
        THEN <<s.nested, "secrets">>
    ELSE IF Truthy(env) THEN <<env, "env">>
    ELSE <<PyNone, "missing">>

\* C3: the resolver returns the store's top-level key if non-empty, else the
\* non-empty api_key of the store's openai block, both with source
\* "secrets"; the environment variable with source "env" only when the
\* store yields no key or throws; else (None, "missing").
C3_Priority ==
    [][pc = "resolve" => <<api_key', key_source'>> = C3_Prescribed(secrets, environ)]_vars

\* C4: without a credential run_llm returns the fixed message and stops, with
\* no import, construction or invocation; and every construction attempt
\* follows a resolution that returned a key.
C4_NoKeyNoClient ==
    /\ (pc \notin {"idle", "resolve"} /\ ~Truthy(api_key))
          => /\ Returned
             /\ result = Return(MissingKeyMessage)
             /\ ~imported /\ constructed = <<>> /\ invoked = <<>>
    /\ (imported \/ constructed # <<>> \/ invoked # <<>>)
          => (Truthy(api_key) /\ key_source \in {"secrets", "env"})

C4_Witness ==
    /\ Returned /\ key_source = "missing"
    /\ result = Return(MissingKeyMessage)
    /\ secrets.avail = "throws"

\* C5: on the success path run_llm returns the extracted answer text
\* followed by the suffix naming the selected persona's label, the model
\* gpt-4o-mini and the credential source of this request.
C5_SuffixOnSuccess ==
    (Returned /\ GotResponse)
        => /\ result.kind = "return"
           /\ answer.t = "str"
           /\ result.value = answer.v \o "\n\n---\n(mode: "
                             \o EXPERTS[SelectedPersona].label
                             \o "|model: " \o "gpt-4o-mini"
                             \o "|key source: " \o key_source \o ")"
           /\ key_source \in {"secrets", "env"}

\* C6: the prompt is exactly two messages, the system message with the
\* selected persona's instruction and then the user message with the text
\* unmodified, and every invocation form is handed that same sequence
\* (generate as the only element of its batch).
C6_TwoMessages ==
    /\ pc \in {"construct", "invoke", "call", "fallback", "extract"}
          => messages # <<>>
    /\ messages # <<>>
          => /\ Len(messages) = 2
             /\ messages[1] = [role |-> "system",
                               content |-> EXPERTS[SelectedPersona].system]
             /\ messages[2] = [role |-> "human", content |-> user_text]
    /\ \A i \in DOMAIN invoked :
          /\ invoked[i].arg = messages
          /\ invoked[i].batched = (invoked[i].form = "generate")

C6_Witness ==
    /\ Len(invoked) = 3
    /\ invoked[3].form = "generate"
    /\ user_text = <<" ", "h">>
    /\ expert_key = "B"
    /\ messages[2].content = <<" ", "h">>

\* the first generation of the first batch, when there is one
C7_HasFirstGen(r) ==
    /\ r.generations.kind = "list"
    /\ r.generations.batches # <<>>
    /\ r.generations.batches[1] # <<>>
C7_FirstGen(r) == r.generations.batches[1][1]

C8_Forms == [i \in DOMAIN invoked |-> invoked[i].form]
\* the forms C8 has the client go through
C8_Planned ==
    <<"invoke", "__call__">>
    \o (IF llm.predict_messages THEN <<"predict_messages">> ELSE <<>>)
    \o (IF llm.generate THEN <<"generate">> ELSE <<>>)

\* C8: the forms are attempted in the order invoke, direct call,
\* predict_messages if supported, generate if supported, each at most once
\* and each exactly when all earlier ones failed; the first success ends the
\* attempts, and the invocation-failed message is returned only when every
\* one of them failed.
C8_FallbackOrder ==
    llm.built =>
        /\ Len(C8_Forms) <= Len(C8_Planned)
        /\ C8_Forms = SubSeq(C8_Planned, 1, Len(C8_Forms))
        /\ (Returned /\ ~GotResponse) => C8_Forms = C8_Planned

\* the keyword arguments C9 gives the four attempts
C9_Kwargs ==
    <<[model_kw |-> "model", model |-> "gpt-4o-mini", temperature |-> "0.3",
       openai_api_key |-> Absent],
      [model_kw |-> "model_name", model |-> "gpt-4o-mini", temperature |-> "0.3",
       openai_api_key |-> Absent],
      [model_kw |-> "model", model |-> "gpt-4o-mini", temperature |-> "0.3",
       openai_api_key |-> api_key],
      [model_kw |-> "model_name", model |-> "gpt-4o-mini", temperature |-> "0.3",
       openai_api_key |-> api_key]>>

\* C9: construction tries the four signatures in order, each at most once;
\* the first success yields the client and ends the attempts; the key is
\* passed explicitly only after both ambient signatures failed; when all
\* four fail run_llm returns the construction-failed message with the
\* fourth error and nothing is invoked.
C9_ConstructionOrder ==
    /\ Len(constructed) <= 4
    /\ constructed = SubSeq(C9_Kwargs, 1, Len(constructed))
    /\ pc = "construct" => (~llm.built /\ Len(constructed) = next_sig - 1)
    /\ invoked # <<>> => llm.built
    /\ (Returned /\ constructed # <<>> /\ ~llm.built)
          => /\ Len(constructed) = 4
             /\ result = Return("Model initialisation failed (gpt-4o-mini). Details: "
                                \o "constructor rejected signature 4")
             /\ invoked = <<>>

C9_Witness ==
    /\ Returned /\ ~llm.built
    /\ Len(constructed) = 4
    /\ constructed[4].openai_api_key = Str("sk-nested")

\* C10 as stated: a call of run_llm leaves the environment variable
\* OPENAI_API_KEY as it found it, so a later resolution sees only what the
\* sources themselves hold.
C10_EnvUntouched ==
    [][pc # "idle" => environ' = environ]_vars

\* C10 as amended: a call of run_llm never changes the secrets store, and it
\* changes the environment variable only in the resolution step, which leaves
\* the resolved key in it when a key was found and leaves it alone otherwise.
C10_EnvHoldsResolvedKey ==
    [][pc # "idle" =>
          /\ secrets' = secrets
          /\ IF pc = "resolve" /\ Truthy(api_key')
             THEN environ' = api_key'
             ELSE environ' = environ]_vars

\* a key first read from the store is reported with source "env" by a later
\* run, after the store stopped providing it
C10_Witness ==
    /\ pc = "import"
    /\ key_source = "env"
    /\ api_key = Str("sk-top")
    /\ secrets.avail = "ok" /\ secrets.top = PyNone /\ secrets.block = "absent"

====
